---- MODULE Spec2Model ----
(***************************************************************************)
(* Model of the lugnut one-time-password engine: the keyed digest of an    *)
(* 8-byte counter (src/src/lib.rs digest), dynamic truncation and          *)
(* rendering (src/src/lib.rs generate, src/src/hotp/mod.rs generate_root), *)
(* the windowed verification searches (verify_delta, verify_delta_root)    *)
(* and the Hotp and Totp builders.                                         *)
(*                                                                         *)
(* Unsigned integers wider than TLC's integers (u64, u128) are big-endian  *)
(* sequences of bytes of the type's width, with carry/borrow arithmetic,   *)
(* so that a wrap or an overflow abort happens exactly where it does in    *)
(* the program.  Strings are sequences of one-character strings.           *)
(***************************************************************************)
EXTENDS Integers, Sequences, FiniteSets, TLC

VARIABLES build, hotp, totp, now, call, pure

vars == <<build, hotp, totp, now, call, pure>>

(***************************************************************************)
(* Bounds of the model.                                                    *)
(***************************************************************************)
MaxWindow == 2
MaxDigits == 11
MaxTicks == 2

MaxSecretLen == 2

(***************************************************************************)
(* Option<T>.                                                              *)
(***************************************************************************)
None == [some |-> FALSE]
Some(v) == [some |-> TRUE, val |-> v]

(***************************************************************************)
(* Result<T, GenerationError>, plus the outcome of an aborted call.        *)
(***************************************************************************)
Ok(v) == [kind |-> "ok", val |-> v]
InvalidKeyLength == [kind |-> "err", val |-> "InvalidKeyLength"]
FailedToGenerateOTP == [kind |-> "err", val |-> "FailedToGenerateOTP"]
FailedToGenerateHOTP == [kind |-> "err", val |-> "FailedToGenerateHOTP"]
Panic == [kind |-> "panic", val |-> "panic"]

\* a function on 1..n as the tuple of its values
AsTuple(f) == SubSeq(f, 1, Len(f))

(***************************************************************************)
(* Fixed-width unsigned integers as big-endian byte sequences.             *)
(***************************************************************************)
U64Bytes == 8
U128Bytes == 16

Pow256(k) == IF k = 0 THEN 1 ELSE IF k = 1 THEN 256 ELSE IF k = 2 THEN 65536 ELSE 16777216

\* the value n (below 2^31) in a width of len bytes
NatToBytes(n, len) ==
    AsTuple([i \in 1..len |-> IF len - i > 3 THEN 0 ELSE (n \div Pow256(len - i)) % 256])

\* `x as u128` for a u64 x: zero extension
AsU128(x) ==
    AsTuple([i \in 1..U128Bytes |->
                IF i <= U128Bytes - Len(x) THEN 0 ELSE x[i - (U128Bytes - Len(x))]])

RECURSIVE AddFrom(_, _, _, _)
\* the bytes 1..i of x + y + carry, where carry comes from the bytes right of
\* i, and the carry out of byte 1
AddFrom(x, y, i, carry) ==
    IF i = 0 THEN [val |-> <<>>, carry |-> carry]
    ELSE LET sum == x[i] + y[i] + carry
             high == AddFrom(x, y, i - 1, sum \div 256)
         IN  [val |-> Append(high.val, sum % 256), carry |-> high.carry]

\* x + y in the width of x: the wrapped sum and whether it overflowed
AddBytes(x, y) ==
    LET r == AddFrom(x, y, Len(x), 0)
    IN  [val |-> r.val, overflow |-> r.carry = 1]

RECURSIVE SubFrom(_, _, _, _)
\* the bytes 1..i of x - y - borrow, where borrow comes from the bytes right
\* of i, and the borrow out of byte 1
SubFrom(x, y, i, borrow) ==
    IF i = 0 THEN [val |-> <<>>, borrow |-> borrow]
    ELSE LET diff == x[i] - y[i] - borrow
             high == SubFrom(x, y, i - 1, IF diff < 0 THEN 1 ELSE 0)
         IN  [val |-> Append(high.val, (diff + 256) % 256), borrow |-> high.borrow]

\* x - y in the width of x: the wrapped difference and whether it underflowed
SubBytes(x, y) ==
    LET r == SubFrom(x, y, Len(x), 0)
    IN  [val |-> r.val, overflow |-> r.borrow = 1]

\* x < y for two integers of the same width
LessBytes(x, y) ==
    \E i \in 1..Len(x) : /\ x[i] < y[i]
                         /\ \A j \in 1..(i - 1) : x[j] = y[j]

\* the value of an integer whose bytes above the low three are zero
BytesToNat(x) ==
    x[Len(x)] + 256 * x[Len(x) - 1] + 65536 * x[Len(x) - 2]

U64(n) == NatToBytes(n, U64Bytes)
U128(n) == NatToBytes(n, U128Bytes)
U128Max == AsTuple([i \in 1..U128Bytes |-> 255])

(***************************************************************************)
(* Bit operations on naturals below 2^31.                                  *)
(***************************************************************************)
RECURSIVE BitAnd(_, _)
\* a & b, a byte at a time where the low byte of either is zero and a bit at
\* a time elsewhere
BitAnd(a, b) ==
    IF a = 0 \/ b = 0 THEN 0
    ELSE IF a % 256 = 0 \/ b % 256 = 0 THEN 256 * BitAnd(a \div 256, b \div 256)
    ELSE (a % 2) * (b % 2) + 2 * BitAnd(a \div 2, b \div 2)

\* a | b
BitOr(a, b) == a + b - BitAnd(a, b)

\* a << n
Shl(a, n) == a * (2 ^ n)

(***************************************************************************)
(* Strings.                                                                *)
(***************************************************************************)
DigitChars == <<"0", "1", "2", "3", "4", "5", "6", "7", "8", "9">>

RECURSIVE to_string(_)
\* u32::to_string: the decimal digits of n, most significant first, no padding
to_string(n) ==
    IF n < 10 THEN <<DigitChars[n + 1]>>
    ELSE to_string(n \div 10) \o <<DigitChars[(n % 10) + 1]>>

\* format!("{:0>width$}", s): s right-aligned in width, filled with '0';
\* a string longer than width is left as it is
PadLeftZero(s, width) ==
    IF Len(s) >= width THEN s
    ELSE AsTuple([i \in 1..(width - Len(s)) |-> "0"]) \o s

\* Vec::get / slice::last: an Option
Get(v, idx) == IF idx + 1 <= Len(v) THEN Some(v[idx + 1]) ELSE None
Last(v) == IF Len(v) > 0 THEN Some(v[Len(v)]) ELSE None

(***************************************************************************)
(* Digest Provider (src/src/lib.rs).                                       *)
(***************************************************************************)
Algorithms == {"Sha1", "Sha256", "Sha512"}

\* output sizes of HMAC-SHA-1, HMAC-SHA-256 and HMAC-SHA-512
DigestLen(algorithm) ==
    CASE algorithm = "Sha1" -> 20
      [] algorithm = "Sha256" -> 32
      [] algorithm = "Sha512" -> 64

\* secret.as_bytes() of two secrets: "Super" and "my k", the beginnings of the
\* keys of the tests
KeyA == <<83, 117, 112, 101, 114>>
KeyB == <<109, 121, 32, 107>>
Keys == {KeyA, KeyB}

(***************************************************************************)
(* HMAC-SHA-1 (Hmac<Sha1> of the hmac and sha1 crates), computed in full.  *)
(***************************************************************************)
\* a ^ b and a & b on the low n bits
RECURSIVE NibbleXor(_, _, _)
NibbleXor(a, b, n) ==
    IF n = 0 THEN 0
    ELSE ((a + b) % 2) + 2 * NibbleXor(a \div 2, b \div 2, n - 1)

RECURSIVE NibbleAnd(_, _, _)
NibbleAnd(a, b, n) ==
    IF n = 0 THEN 0
    ELSE ((a % 2) * (b % 2)) + 2 * NibbleAnd(a \div 2, b \div 2, n - 1)

\* the tables of ^ and & on 4-bit values
Xor4 == AsTuple([a \in 1..16 |-> AsTuple([b \in 1..16 |-> NibbleXor(a - 1, b - 1, 4)])])
And4 == AsTuple([a \in 1..16 |-> AsTuple([b \in 1..16 |-> NibbleAnd(a - 1, b - 1, 4)])])

\* the round functions of SHA-1 on 4-bit values:
\* (b & c) | (!b & d), b ^ c ^ d, (b & c) | (b & d) | (c & d)
Or4(a, b) == a + b - And4[a + 1][b + 1]
Ch(b, c, d) == Or4(And4[b + 1][c + 1], And4[(15 - b) + 1][d + 1])
Parity(b, c, d) == Xor4[Xor4[b + 1][c + 1] + 1][d + 1]
Maj(b, c, d) == Or4(Or4(And4[b + 1][c + 1], And4[b + 1][d + 1]), And4[c + 1][d + 1])

\* their tables
Ch4 ==
    AsTuple([b \in 1..16 |-> AsTuple([c \in 1..16 |-> AsTuple([d \in 1..16 |->
        Ch(b - 1, c - 1, d - 1)])])])

Parity4 ==
    AsTuple([b \in 1..16 |-> AsTuple([c \in 1..16 |-> AsTuple([d \in 1..16 |->
        Parity(b - 1, c - 1, d - 1)])])])

Maj4 ==
    AsTuple([b \in 1..16 |-> AsTuple([c \in 1..16 |-> AsTuple([d \in 1..16 |->
        Maj(b - 1, c - 1, d - 1)])])])

\* a table of 4-bit values applied to the n low nibbles of x and y (x, y and z)
RECURSIVE Nibbles2(_, _, _, _)
Nibbles2(table, x, y, n) ==
    IF n = 0 THEN 0
    ELSE table[(x % 16) + 1][(y % 16) + 1] + 16 * Nibbles2(table, x \div 16, y \div 16, n - 1)

RECURSIVE Nibbles3(_, _, _, _, _)
Nibbles3(table, x, y, z, n) ==
    IF n = 0 THEN 0
    ELSE table[(x % 16) + 1][(y % 16) + 1][(z % 16) + 1]
            + 16 * Nibbles3(table, x \div 16, y \div 16, z \div 16, n - 1)

Xor8(x, y) == Nibbles2(Xor4, x, y, 2)

\* a u32 is the pair of its high and low 16 bits: ^, wrapping_add, rotate_left
WXor(a, b) == <<Nibbles2(Xor4, a[1], b[1], 4), Nibbles2(Xor4, a[2], b[2], 4)>>
WAdd(a, b) == <<(a[1] + b[1] + ((a[2] + b[2]) \div 65536)) % 65536, (a[2] + b[2]) % 65536>>
WRotlShort(a, k) ==
    <<((a[1] * (2 ^ k)) % 65536) + (a[2] \div (2 ^ (16 - k))),
      ((a[2] * (2 ^ k)) % 65536) + (a[1] \div (2 ^ (16 - k)))>>
WRotl(a, k) == IF k < 16 THEN WRotlShort(a, k) ELSE WRotlShort(<<a[2], a[1]>>, k - 16)

\* the padding of SHA-1: 0x80, zeros up to 56 mod 64, the bit length in 8 bytes
Sha1Pad(msg) ==
    msg \o <<128>> \o AsTuple([i \in 1..((119 - Len(msg)) % 64) |-> 0])
        \o <<0, 0, 0, 0, 0, (Len(msg) \div 8192) % 256, (Len(msg) \div 32) % 256,
             (Len(msg) * 8) % 256>>

\* the 16 big-endian words of the 64-byte block after position start
BlockWords(bytes, start) ==
    AsTuple([t \in 1..16 |->
        <<bytes[start + 4 * t - 3] * 256 + bytes[start + 4 * t - 2],
          bytes[start + 4 * t - 1] * 256 + bytes[start + 4 * t]>>])

\* the 80 words of the message schedule
RECURSIVE Sha1Schedule(_)
Sha1Schedule(w) ==
    IF Len(w) = 80 THEN w
    ELSE Sha1Schedule(Append(w,
            WRotl(WXor(WXor(w[Len(w) - 2], w[Len(w) - 7]),
                       WXor(w[Len(w) - 13], w[Len(w) - 15])), 1)))

\* the round function and the round constant of round t
Sha1F4(t) == IF t < 20 THEN Ch4 ELSE IF t < 40 THEN Parity4 ELSE IF t < 60 THEN Maj4 ELSE Parity4

Sha1F(table, b, c, d) ==
    <<Nibbles3(table, b[1], c[1], d[1], 4), Nibbles3(table, b[2], c[2], d[2], 4)>>

Sha1K(t) ==
    IF t < 20 THEN <<23170, 31129>>
    ELSE IF t < 40 THEN <<28377, 60321>>
    ELSE IF t < 60 THEN <<36635, 48348>>
    ELSE <<51810, 49622>>

\* the 80 rounds on the working variables a..e
RECURSIVE Sha1Rounds(_, _)
Sha1Rounds(s, w) ==
    IF s.t = 80 THEN s
    ELSE Sha1Rounds([a |-> WAdd(WAdd(WAdd(WRotl(s.a, 5), Sha1F(Sha1F4(s.t), s.b, s.c, s.d)),
                                     WAdd(s.e, Sha1K(s.t))), w[s.t + 1]),
                     b |-> s.a, c |-> WRotl(s.b, 30), d |-> s.c, e |-> s.d,
                     t |-> s.t + 1], w)

\* the working variables added to the chaining value h
Sha1Add(h, s) ==
    <<WAdd(h[1], s.a), WAdd(h[2], s.b), WAdd(h[3], s.c), WAdd(h[4], s.d), WAdd(h[5], s.e)>>

\* one block folded into the chaining value h
Sha1Compress(h, bytes, start) ==
    Sha1Add(h, Sha1Rounds([a |-> h[1], b |-> h[2], c |-> h[3], d |-> h[4], e |-> h[5], t |-> 0],
                          Sha1Schedule(BlockWords(bytes, start))))

\* the initial chaining value 67452301 EFCDAB89 98BADCFE 10325476 C3D2E1F0
Sha1Init == <<<<26437, 8961>>, <<61389, 43913>>, <<39098, 56574>>, <<4146, 21622>>, <<50130, 57840>>>>

RECURSIVE Sha1Blocks(_, _, _)
Sha1Blocks(h, bytes, start) ==
    IF start >= Len(bytes) THEN h
    ELSE Sha1Blocks(Sha1Compress(h, bytes, start), bytes, start + 64)

\* the words of h as big-endian bytes
WordsToBytes(h) ==
    AsTuple([i \in 1..(4 * Len(h)) |->
        IF i % 2 = 1 THEN h[((i - 1) \div 4) + 1][(((i - 1) % 4) \div 2) + 1] \div 256
        ELSE h[((i - 1) \div 4) + 1][(((i - 1) % 4) \div 2) + 1] % 256])

\* SHA-1 of a byte string
Sha1(msg) == WordsToBytes(Sha1Blocks(Sha1Init, Sha1Pad(msg), 0))

\* the key block of HMAC XORed with a pad byte
XorPad(block, pad) == AsTuple([i \in 1..64 |-> Xor8(IF i <= Len(block) THEN block[i] ELSE 0, pad)])

\* H((K ^ pad) || msg) for the pads in turn, each hash the message of the next
RECURSIVE HmacPasses(_, _, _)
HmacPasses(block, pads, msg) ==
    IF pads = <<>> THEN msg
    ELSE HmacPasses(block, Tail(pads), Sha1(XorPad(block, Head(pads)) \o msg))

\* HmacSha1::new_varkey(key), update(msg), finalize().into_bytes():
\* H((K ^ opad) || H((K ^ ipad) || msg)), ipad 0x36 and opad 0x5c; a key of the
\* block size or less is K itself (the model's keys are shorter than a block)
HmacSha1(key, msg) == HmacPasses(key, <<54, 92>>, msg)

\* the secret "12345678901234567890" of the test vectors of RFC 4226
RfcKey == <<49, 50, 51, 52, 53, 54, 55, 56, 57, 48, 49, 50, 51, 52, 53, 54, 55, 56, 57, 48>>

\* the secrets for which the model computes HMAC-SHA-1 in full
HashedInFull == {RfcKey}

(***************************************************************************)
(* digest and the stand-in for the keyed hash of the other secrets.        *)
(***************************************************************************)
RECURSIVE SumBytes(_, _)
SumBytes(v, w) == IF v = <<>> THEN 0 ELSE w * Len(v) * v[Len(v)] + SumBytes(SubSeq(v, 1, Len(v) - 1), w)

\* a byte mixer: a fixed function of the key and the message whose output has
\* the algorithm's size
MixedOutput(algorithm, secret, buf) ==
    LET seed == (SumBytes(secret, 3) + SumBytes(buf, 7)) % 9973
    IN  AsTuple([i \in 1..DigestLen(algorithm) |->
            ((seed + 7 * i * i) * ((seed \div 7) + 2 * i + 1) + (seed \div 256) + 13) % 256])

\* Mac::update(buf) and finalize().into_bytes().  The hash is the hmac
\* crate's: for the secrets of HashedInFull under SHA-1 the model computes it,
\* for the other sample secrets and algorithms the byte mixer stands in
HmacOutput(algorithm, secret, buf) ==
    IF algorithm = "Sha1" /\ secret \in HashedInFull THEN HmacSha1(secret, buf)
    ELSE MixedOutput(algorithm, secret, buf)

\* Hmac::new_varkey(secret.as_bytes()): HMAC takes a key of any length (a long
\* key is hashed first, a short one padded), so no secret is refused
KeyLengthRefused(secret) == FALSE

\* get_hmac: the `?` turns a refusal of new_varkey into Err(InvalidKeyLength)
get_hmac(secret, algorithm) ==
    IF KeyLengthRefused(secret) THEN InvalidKeyLength
    ELSE Ok([key |-> secret, alg |-> algorithm])

RECURSIVE FillBuf(_, _, _)
\* for i in 0..8 { buf[7 - i] = (tmp & 0xff) as u8; tmp = tmp >> 8; }
FillBuf(buf, tmp, i) ==
    IF i = 8 THEN buf
    ELSE FillBuf([buf EXCEPT ![7 - i + 1] = tmp[Len(tmp)]],
                 <<0>> \o SubSeq(tmp, 1, Len(tmp) - 1),
                 i + 1)

RECURSIVE FillBufForward(_, _, _)
\* FillBuf writing buf[i] instead of buf[7 - i]: least significant byte first
FillBufForward(buf, tmp, i) ==
    IF i = 8 THEN buf
    ELSE FillBufForward([buf EXCEPT ![i + 1] = tmp[Len(tmp)]],
                        <<0>> \o SubSeq(tmp, 1, Len(tmp) - 1),
                        i + 1)

\* the 8-byte message filled least significant byte first
CounterBufForward(counter) == FillBufForward(<<0, 0, 0, 0, 0, 0, 0, 0>>, counter, 0)

\* the 8-byte message that digest feeds the keyed hash for a u128 counter
CounterBuf(counter) == FillBuf(<<0, 0, 0, 0, 0, 0, 0, 0>>, counter, 0)

digest(secret, counter, algorithm) ==
    LET mac == get_hmac(secret, algorithm)
    IN  IF mac.kind = "err" THEN mac
        ELSE Ok(HmacOutput(algorithm, secret, CounterBuf(counter)))

(***************************************************************************)
(* Dynamic truncation and rendering.                                       *)
(***************************************************************************)
\* truncated_code with the third byte left unshifted (<< 8 forgotten)
truncated_code_unshifted(digest_hash) ==
    LET last == Last(digest_hash)
        offset == IF last.some THEN BitAnd(last.val, 15) ELSE 0
        g0 == Get(digest_hash, offset)
        g1 == Get(digest_hash, offset + 1)
        g2 == Get(digest_hash, offset + 2)
        g3 == Get(digest_hash, offset + 3)
        no_offset == IF g0.some THEN Shl(BitAnd(g0.val, 127), 24) ELSE 0
        one_offset == IF g1.some THEN Shl(BitAnd(g1.val, 255), 16) ELSE 0
        two_offset == IF g2.some THEN BitAnd(g2.val, 255) ELSE 0
        three_offset == IF g3.some THEN BitAnd(g3.val, 255) ELSE 0
    IN  BitOr(BitOr(BitOr(no_offset, one_offset), two_offset), three_offset)

\* src/src/lib.rs generate, the code before the zero test
truncated_code(digest_hash) ==
    LET last == Last(digest_hash)
        offset == IF last.some THEN BitAnd(last.val, 15) ELSE 0
        g0 == Get(digest_hash, offset)
        g1 == Get(digest_hash, offset + 1)
        g2 == Get(digest_hash, offset + 2)
        g3 == Get(digest_hash, offset + 3)
        no_offset == IF g0.some THEN Shl(BitAnd(g0.val, 127), 24) ELSE 0
        one_offset == IF g1.some THEN Shl(BitAnd(g1.val, 255), 16) ELSE 0
        two_offset == IF g2.some THEN Shl(BitAnd(g2.val, 255), 8) ELSE 0
        three_offset == IF g3.some THEN BitAnd(g3.val, 255) ELSE 0
    IN  BitOr(BitOr(BitOr(no_offset, one_offset), two_offset), three_offset)

\* padded_slice keeping the first digits characters instead of the last
padded_slice_head(code, digits) ==
    SubSeq(PadLeftZero(to_string(code), digits), 1, digits)

\* src/src/lib.rs generate, the rendering of a non-zero code
padded_slice(code, digits) ==
    LET padded_string == PadLeftZero(to_string(code), digits)
    IN  SubSeq(padded_string, Len(padded_string) - digits + 1, Len(padded_string))

\* generate without the zero test: an all-zero code is rendered like any other
generate_zero_allowed(key, counter, digits, digest_hash) ==
    LET code == truncated_code(digest_hash)
    IN  [code |-> code, res |-> Ok(padded_slice(code, digits))]

\* src/src/lib.rs generate(key, counter, digits, digest_hash)
generate(key, counter, digits, digest_hash) ==
    LET code == truncated_code(digest_hash)
    IN  [code |-> code,
         res |-> IF code = 0 THEN FailedToGenerateOTP ELSE Ok(padded_slice(code, digits))]

\* root_code reading its four bytes at offset 0 whatever the last byte
root_code_fixed_offset(defined_digest) ==
    LET g0 == Get(defined_digest, 0)
        g1 == Get(defined_digest, 1)
        g2 == Get(defined_digest, 2)
        g3 == Get(defined_digest, 3)
        no_offset == IF g0.some THEN Shl(BitAnd(g0.val, 127), 24) ELSE 0
        one_offset == IF g1.some THEN Shl(BitAnd(g1.val, 255), 16) ELSE 0
        two_offset == IF g2.some THEN Shl(BitAnd(g2.val, 255), 8) ELSE 0
        three_offset == IF g3.some THEN BitAnd(g3.val, 255) ELSE 0
    IN  BitOr(BitOr(BitOr(no_offset, one_offset), two_offset), three_offset)

\* src/src/hotp/mod.rs generate_root, the code before the zero test
root_code(defined_digest) ==
    LET last == Last(defined_digest)
        offset == IF last.some THEN BitAnd(last.val, 15) ELSE 0
        g0 == Get(defined_digest, offset)
        g1 == Get(defined_digest, offset + 1)
        g2 == Get(defined_digest, offset + 2)
        g3 == Get(defined_digest, offset + 3)
        no_offset == IF g0.some THEN Shl(BitAnd(g0.val, 127), 24) ELSE 0
        one_offset == IF g1.some THEN Shl(BitAnd(g1.val, 255), 16) ELSE 0
        two_offset == IF g2.some THEN Shl(BitAnd(g2.val, 255), 8) ELSE 0
        three_offset == IF g3.some THEN BitAnd(g3.val, 255) ELSE 0
    IN  BitOr(BitOr(BitOr(no_offset, one_offset), two_offset), three_offset)

\* root_padded_slice without the final slice: the padded string is returned whole
root_padded_slice_unsliced(code, defined_digits) ==
    PadLeftZero(to_string(code), defined_digits)

\* src/src/hotp/mod.rs generate_root, the rendering of a non-zero code
root_padded_slice(code, defined_digits) ==
    LET padded_string == PadLeftZero(to_string(code), defined_digits)
    IN  SubSeq(padded_string, Len(padded_string) - defined_digits + 1, Len(padded_string))

\* generate_root hashing the key and counter even when a digest is supplied
generate_root_always_hashing(key, counter, digits, digest_arg) ==
    LET defined_digits == IF digits.some THEN digits.val ELSE 6
        defined_digest == digest(key, counter, "Sha1")
        code == root_code(defined_digest.val)
    IN  IF defined_digest.kind = "err"
        THEN [res |-> defined_digest, code |-> -1, calls |-> 1]
        ELSE [res |-> IF code = 0 THEN FailedToGenerateHOTP
                      ELSE Ok(root_padded_slice(code, defined_digits)),
              code |-> code,
              calls |-> 1]

\* src/src/hotp/mod.rs generate_root(key, counter, digits, digest_arg):
\* res is the returned Result, code the truncated integer (-1 when the digest
\* failed), calls the number of invocations of digest
generate_root(key, counter, digits, digest_arg) ==
    LET defined_digits == IF digits.some THEN digits.val ELSE 6
        defined_digest == IF digest_arg.some THEN Ok(digest_arg.val)
                          ELSE digest(key, counter, "Sha1")
        calls == IF digest_arg.some THEN 0 ELSE 1
        code == root_code(defined_digest.val)
    IN  IF defined_digest.kind = "err"
        THEN [res |-> defined_digest, code |-> -1, calls |-> calls]
        ELSE [res |-> IF code = 0 THEN FailedToGenerateHOTP
                      ELSE Ok(root_padded_slice(code, defined_digits)),
              code |-> code,
              calls |-> calls]

(***************************************************************************)
(* HOTP verification (src/src/hotp/mod.rs).                                *)
(***************************************************************************)
\* if let Ok(otp) = ... { otp } else { String::from("") }
CodeOrEmpty(res) == IF res.kind = "ok" THEN res.val ELSE <<>>

\* the number of items of the inclusive range start..=end
RangeLen(start, end) ==
    IF LessBytes(end, start) THEN 0 ELSE BytesToNat(SubBytes(end, start).val) + 1

\* the candidate that one iteration of the search loop generates for counter i
root_candidate(key, i, defined_digits, defined_digest) ==
    LET g == generate_root(key, i, Some(defined_digits), Some(defined_digest))
    IN  [counter |-> i, otp |-> CodeOrEmpty(g.res), res |-> g.res]

\* if test_otp == token { return Ok(true); } over the candidates in loop
\* order, Ok(false) after the last: cands are the candidates generated
first_match(all, token) ==
    LET hits == {k \in 1..Len(all) : all[k].otp = token}
    IN  IF hits = {} THEN [res |-> Ok(FALSE), cands |-> all]
        ELSE [res |-> Ok(TRUE),
              cands |-> SubSeq(all, 1, CHOOSE k \in hits : \A j \in hits : k <= j)]

\* for i in counter..=end { ... }
root_search(token, key, counter, end, defined_digits, defined_digest) ==
    first_match(AsTuple([k \in 1..RangeLen(counter, end) |->
                            root_candidate(key, AddBytes(counter, U128(k - 1)).val,
                                           defined_digits, defined_digest)]),
                token)

\* verify_delta_root(token, key, counter, digits, window, digest_arg) in a
\* build with (checks = TRUE) or without overflow checks
verify_delta_root(token, key, counter, digits, window, digest_arg, checks) ==
    LET defined_digits == IF digits.some THEN digits.val ELSE 6
        defined_window == IF window.some THEN window.val ELSE 10
        defined_digest == IF digest_arg.some THEN Ok(digest_arg.val)
                          ELSE digest(key, counter, "Sha1")
        calls == IF digest_arg.some THEN 0 ELSE 1
        end == AddBytes(counter, U128(defined_window))
        s == root_search(token, key, counter, end.val, defined_digits, defined_digest.val)
    IN  IF defined_digest.kind = "err"
        THEN [res |-> defined_digest, calls |-> calls, cands |-> <<>>]
        ELSE IF Len(token) # defined_digits
        THEN [res |-> Ok(FALSE), calls |-> calls, cands |-> <<>>]
        ELSE IF end.overflow /\ checks
        THEN [res |-> Panic, calls |-> calls, cands |-> <<>>]
        ELSE [res |-> s.res, calls |-> calls, cands |-> s.cands]

(***************************************************************************)
(* TOTP (src/src/totp/mod.rs) and its search (src/src/lib.rs verify_delta). *)
(***************************************************************************)
\* Totp::new()
TotpNew == [epoch_time_offset |-> 0, time |-> 0, step |-> 30, window |-> 0, digest |-> <<>>]

\* get_counter counting the steps from UNIX_EPOCH, the epoch offset ignored
get_counter_from_unix_epoch(t, clock) ==
    LET end == IF t.time = 0 THEN clock ELSE t.time
    IN  Ok(end \div t.step)

\* Totp::get_counter with the wall clock at `clock` seconds: duration_since
\* is Err when start is later than end, and unwrap aborts on it
get_counter(t, clock) ==
    LET end == IF t.time = 0 THEN clock ELSE t.time
        start == t.epoch_time_offset
    IN  IF start > end THEN Panic ELSE Ok((end - start) \div t.step)

\* Totp::generate(key)
totp_generate(t, key, clock) ==
    LET c == get_counter(t, clock)
        counter == AsU128(U64(c.val))
        hash == IF t.digest = <<>> THEN digest(key, counter, "Sha1") ELSE Ok(t.digest)
        calls == IF t.digest = <<>> THEN 1 ELSE 0
        g == generate(key, counter, 6, hash.val)
    IN  IF c.kind = "panic" THEN [res |-> Panic, code |-> -1, calls |-> 0, counter |-> -1]
        ELSE IF hash.kind = "err"
        THEN [res |-> hash, code |-> -1, calls |-> calls, counter |-> c.val]
        ELSE [res |-> g.res, code |-> g.code, calls |-> calls, counter |-> c.val]

\* one iteration of the loop of verify_delta: generate is called with
\* counter, the first counter of the range, whatever the iteration
delta_candidate(key, counter, digits, digest_hash) ==
    LET g == generate(key, counter, digits, digest_hash)
    IN  [counter |-> counter, otp |-> CodeOrEmpty(g.res), res |-> g.res]

\* let test_otp = generate(..)?; if test_otp == token { return Ok(true); }
\* over the candidates in loop order, Ok(false) after the last
delta_scan(all, token) ==
    LET stops == {k \in 1..Len(all) : all[k].res.kind = "err" \/ all[k].otp = token}
        first == CHOOSE k \in stops : \A j \in stops : k <= j
    IN  IF stops = {} THEN [res |-> Ok(FALSE), cands |-> all]
        ELSE [res |-> IF all[first].res.kind = "err" THEN all[first].res ELSE Ok(TRUE),
              cands |-> SubSeq(all, 1, first)]

\* src/src/lib.rs verify_delta(token, key, counter, digits, window, digest_hash)
\* for a u64 window, in a build with or without overflow checks
verify_delta(token, key, counter, digits, window, digest_hash, checks) ==
    LET end == AddBytes(counter, AsU128(window))
        s == delta_scan(AsTuple([k \in 1..RangeLen(counter, end.val) |->
                                    delta_candidate(key, counter, digits, digest_hash)]),
                        token)
    IN  IF Len(token) # digits THEN [res |-> Ok(FALSE), cands |-> <<>>]
        ELSE IF end.overflow /\ checks THEN [res |-> Panic, cands |-> <<>>]
        ELSE s

\* Totp::verify(token, key)
totp_verify(t, token, key, clock, checks) ==
    LET c == get_counter(t, clock)
        windowed == SubBytes(U64(c.val), U64(t.window))
        windowed_counter == AsU128(windowed.val)
        hash == IF t.digest = <<>> THEN digest(key, windowed_counter, "Sha1") ELSE Ok(t.digest)
        calls == IF t.digest = <<>> THEN 1 ELSE 0
        twice == AddBytes(U64(t.window), U64(t.window))
        v == verify_delta(token, key, windowed_counter, 6, twice.val, hash.val, checks)
    IN  IF c.kind = "panic"
        THEN [res |-> Panic, calls |-> 0, cands |-> <<>>, counter |-> -1, lower |-> <<>>]
        ELSE IF windowed.overflow /\ checks
        THEN [res |-> Panic, calls |-> 0, cands |-> <<>>, counter |-> c.val, lower |-> <<>>]
        ELSE IF hash.kind = "err"
        THEN [res |-> hash, calls |-> calls, cands |-> <<>>, counter |-> c.val,
              lower |-> windowed_counter]
        ELSE IF twice.overflow /\ checks
        THEN [res |-> Panic, calls |-> calls, cands |-> <<>>, counter |-> c.val,
              lower |-> windowed_counter]
        ELSE [res |-> v.res, calls |-> calls, cands |-> v.cands, counter |-> c.val,
              lower |-> windowed_counter]

(***************************************************************************)
(* The inputs of the model.                                                *)
(***************************************************************************)
\* overflow checks on (debug profile) or off (release profile)
Builds == {TRUE, FALSE}

HotpCounters == {U128(1), SubBytes(U128Max, U128(1)).val}

HotpDigits == {0, 1, 50}

\* digests handed to with_digest: an all-zero SHA-1 sized one, an empty one
\* and the digest of another key and counter
DigestOverrides ==
    {AsTuple([i \in 1..20 |-> 0]), <<>>, HmacOutput("Sha1", KeyB, CounterBuf(U128(7)))}

\* the last call on a builder: its arguments, its returned value and what it
\* did on the way (calls: invocations of digest; cands: candidates generated by
\* the search; counter, lower: the derived counter and the first counter of
\* the search of a Totp call)
NoCall == [op |-> "none", token |-> <<>>, key |-> <<>>, res |-> Ok(FALSE), code |-> -1,
           calls |-> 0, cands |-> <<>>, counter |-> -1, lower |-> <<>>]

NoPure == [fn |-> "none", digest |-> <<>>, digits |-> 0, code |-> -1, res |-> Ok(FALSE),
           key |-> <<>>, counter |-> <<>>, algorithm |-> "Sha1", buf |-> <<>>,
           api |-> "none", length |-> None, seed |-> <<0, 0>>, bytes |-> <<>>,
           secret |-> <<>>, options |-> [some |-> FALSE], created |-> [some |-> FALSE]]

\* the code an honest prover holding the key computes for a counter
ProverCode(key, counter, digits) == CodeOrEmpty(generate_root(key, counter, digits, None).res)

\* tokens presented to Hotp::verify: the prover's codes for the counters
\* counter, counter + window and counter + window + 1, the builder's own code,
\* a wrong code of the right length and malformed ones
HotpTokens(h) ==
    LET w == IF h.window.some THEN h.window.val ELSE 10
        d == IF h.digits.some THEN h.digits.val ELSE 6
        steps == {AddBytes(h.counter, U128(k)) : k \in {0, w, w + 1}}
    IN  {ProverCode(h.key, s.val, h.digits) : s \in {t \in steps : ~t.overflow}}
        \cup {CodeOrEmpty(generate_root(h.key, h.counter, h.digits, h.digest).res)}
        \cup {<<"w", "r", "o", "n", "g">>, <<>>, AsTuple([i \in 1..d |-> "0"])}

(***************************************************************************)
(* The Hotp builder (src/src/hotp/mod.rs).                                 *)
(***************************************************************************)
\* Hotp::new(key, counter)
HotpNew(key, counter) ==
    [key |-> key, counter |-> counter, window |-> None, digits |-> None, digest |-> None]

Init ==
    /\ build \in Builds
    /\ \E key \in Keys, counter \in HotpCounters : hotp = HotpNew(key, counter)
    /\ totp = TotpNew
    /\ now = 0
    /\ call = NoCall
    /\ pure = NoPure

of_length(n) ==
    /\ hotp' = [hotp EXCEPT !.digits = Some(n)]
    /\ call' = [NoCall EXCEPT !.op = "of_length"]
    /\ UNCHANGED <<build, totp, now, pure>>

with_digest(d) ==
    /\ hotp' = [hotp EXCEPT !.digest = Some(d)]
    /\ call' = [NoCall EXCEPT !.op = "with_digest"]
    /\ UNCHANGED <<build, totp, now, pure>>

with_window(w) ==
    /\ hotp' = [hotp EXCEPT !.window = Some(w)]
    /\ call' = [NoCall EXCEPT !.op = "with_window"]
    /\ UNCHANGED <<build, totp, now, pure>>

HotpGenerate ==
    /\ LET g == generate_root(hotp.key, hotp.counter, hotp.digits, hotp.digest)
       IN  call' = [NoCall EXCEPT !.op = "generate", !.key = hotp.key, !.res = g.res,
                                  !.code = g.code, !.calls = g.calls]
    /\ UNCHANGED <<build, hotp, totp, now, pure>>

\* HotpVerify moving the builder's counter past the one verified, as a
\* resynchronising verifier does
HotpVerifyAdvancingCounter(token) ==
    /\ LET v == verify_delta_root(token, hotp.key, hotp.counter, hotp.digits, hotp.window,
                                  hotp.digest, build)
       IN  /\ call' = [NoCall EXCEPT !.op = "verify", !.token = token, !.key = hotp.key,
                                     !.res = v.res, !.calls = v.calls, !.cands = v.cands]
           /\ hotp' = IF v.res.kind = "ok" /\ v.res.val = TRUE
                          /\ ~AddBytes(hotp.counter, U128(1)).overflow
                       THEN [hotp EXCEPT !.counter = AddBytes(hotp.counter, U128(1)).val]
                       ELSE hotp
    /\ UNCHANGED <<build, totp, now, pure>>

HotpVerify(token) ==
    /\ LET v == verify_delta_root(token, hotp.key, hotp.counter, hotp.digits, hotp.window,
                                  hotp.digest, build)
       IN  call' = [NoCall EXCEPT !.op = "verify", !.token = token, !.key = hotp.key,
                                  !.res = v.res, !.calls = v.calls, !.cands = v.cands]
    /\ UNCHANGED <<build, hotp, totp, now, pure>>

Next ==
    \/ \E n \in HotpDigits : of_length(n)
    \/ \E d \in DigestOverrides : with_digest(d)
    \/ \E w \in 0..MaxWindow : with_window(w)
    \/ HotpGenerate
    \/ \E token \in HotpTokens(hotp) : HotpVerify(token)

Spec == Init /\ [][Next]_vars

(***************************************************************************)
(* Properties of the Hotp builder, checked under Spec.                     *)
(***************************************************************************)
HotpDefinedDigits == IF hotp.digits.some THEN hotp.digits.val ELSE 6
HotpDefinedWindow == IF hotp.window.some THEN hotp.window.val ELSE 10

\* what Hotp::generate returns on the builder as it is configured now
HotpOwnCode == generate_root(hotp.key, hotp.counter, hotp.digits, hotp.digest).res

\* what Hotp::generate returns on a builder configured alike for counter i
HotpCodeAt(i) == generate_root(hotp.key, i, hotp.digits, hotp.digest).res

\* the counters counter .. counter + window that exist in u128
HotpWindowCounters ==
    {s.val : s \in {t \in {AddBytes(hotp.counter, U128(k)) : k \in 0..HotpDefinedWindow} :
                      ~t.overflow}}

\* C1: HOTP round-trip.  Whenever Hotp::generate returns a code for the
\* builder's secret, counter and digits, Hotp::verify of that code on the same
\* builder (any window) returns Ok(true).
C1_RoundTrip ==
    (call.op = "verify" /\ HotpOwnCode.kind = "ok" /\ call.token = HotpOwnCode.val)
        => (call.res.kind = "ok" /\ call.res.val = TRUE)

\* C2: HOTP forward window.  Hotp::verify generates, for each counter i of
\* counter ..= counter + window, the code of counter i, and returns true
\* exactly when the token equals one of them: a token generated at any counter
\* of the window (counter + window included) passes, one generated at
\* counter + window + 1 that differs from all of them fails.
C2_ForwardWindow ==
    (call.op = "verify" /\ call.res.kind = "ok" /\ Len(call.token) = HotpDefinedDigits)
        => /\ \A k \in 1..Len(call.cands) :
                 call.cands[k].otp = CodeOrEmpty(HotpCodeAt(call.cands[k].counter))
           /\ call.res.val = (\E i \in HotpWindowCounters :
                                 /\ HotpCodeAt(i).kind = "ok"
                                 /\ call.token = HotpCodeAt(i).val)

\* C5: token-length mismatch.  Whenever the length of the token differs from
\* digits, verify returns Ok(false) and the Digest Provider is not invoked on
\* that call, whatever the key.
C5_LengthMismatchNoDigest ==
    (call.op = "verify" /\ Len(call.token) # HotpDefinedDigits)
        => (call.res.kind = "ok" /\ call.res.val = FALSE /\ call.calls = 0)

\* C6: error propagation.  For a token of the right length, when the
\* generation of a candidate fails during the window search, verify returns
\* that error and not a boolean.
C6_SearchErrorPropagates ==
    (call.op = "verify" /\ Len(call.token) = HotpDefinedDigits)
        => \A k \in 1..Len(call.cands) :
              call.cands[k].res.kind = "err"
                 => (call.res.kind = "err" /\ call.res.val = call.cands[k].res.val)

\* C9: length invariant.  Every code that Hotp::generate returns has exactly
\* digits characters for every digits >= 1 set with of_length, and exactly 6
\* characters when digits was never set.
C9_LengthInvariant ==
    (call.op = "generate" /\ call.res.kind = "ok"
        /\ (hotp.digits.some => hotp.digits.val >= 1))
        => Len(call.res.val) = (IF hotp.digits.some THEN hotp.digits.val ELSE 6)

\* a generated code of 50 characters: digits above the 10 decimal digits of a
\* 31-bit code
C9_Witness ==
    /\ call.op = "generate" /\ call.res.kind = "ok"
    /\ hotp.digits = Some(50) /\ Len(call.res.val) = 50

(***************************************************************************)
(* The two generation functions applied to sample digests (SpecPure).      *)
(***************************************************************************)
\* a digest of len bytes whose last byte has low nibble offset: all zero, all
\* 0xff, or mixed bytes, above the nibble that selects the offset
SampleDigest(len, pattern, offset) ==
    AsTuple([i \in 1..len |->
        IF i = len
        THEN (IF pattern = "zero" THEN 0 ELSE IF pattern = "ones" THEN 240
              ELSE 16 * ((offset + len) % 16)) + offset
        ELSE IF pattern = "zero" THEN 0
        ELSE IF pattern = "ones" THEN 255
        ELSE IF pattern = "mixA" THEN (i * 29 + offset * 7 + 131) % 256
        ELSE (i * i * 3 + offset * 11 + len) % 256])

\* digests of the sizes of SHA-1, SHA-256 and SHA-512
SizedDigests ==
    {SampleDigest(DigestLen(a), pattern, offset) :
        a \in Algorithms, pattern \in {"zero", "ones", "mixA", "mixB"}, offset \in 0..15}

\* digests of other sizes, as with_digest accepts them
OddDigests == {<<>>, <<1, 2, 3, 0>>, <<1, 2, 3, 4>>}

PureDigits == (0..MaxDigits) \cup {50}

InitPure ==
    /\ build = FALSE
    /\ hotp = HotpNew(KeyA, U128(1))
    /\ totp = TotpNew
    /\ now = 0
    /\ call = NoCall
    /\ \E d \in SizedDigests \cup OddDigests, n \in PureDigits :
          pure = [NoPure EXCEPT !.digest = d, !.digits = n]

\* lib.rs generate(key, counter, digits, digest_hash) on the sample
ApplyGenerate ==
    /\ pure.fn = "none"
    /\ LET g == generate(KeyA, U128(1), pure.digits, pure.digest)
       IN  pure' = [pure EXCEPT !.fn = "generate", !.code = g.code, !.res = g.res]
    /\ UNCHANGED <<build, hotp, totp, now, call>>

\* hotp generate_root(key, counter, Some(digits), Some(digest)) on the sample
ApplyGenerateRoot ==
    /\ pure.fn = "none"
    /\ LET g == generate_root(KeyA, U128(1), Some(pure.digits), Some(pure.digest))
       IN  pure' = [pure EXCEPT !.fn = "generate_root", !.code = g.code, !.res = g.res]
    /\ UNCHANGED <<build, hotp, totp, now, call>>

NextPure ==
    \/ ApplyGenerate
    \/ ApplyGenerateRoot

SpecPure == InitPure /\ [][NextPure]_vars

(***************************************************************************)
(* Properties of truncation and rendering, checked under SpecPure.         *)
(***************************************************************************)
\* the number that a string of decimal digits denotes
RECURSIVE DecimalValue(_)
DecimalValue(str) ==
    IF Len(str) = 0 THEN 0
    ELSE 10 * DecimalValue(SubSeq(str, 1, Len(str) - 1))
         + (CHOOSE d \in 0..9 : DigitChars[d + 1] = str[Len(str)])

IsDecimal(str) == \A i \in 1..Len(str) : \E d \in 0..9 : DigitChars[d + 1] = str[i]

RECURSIVE Pow10(_)
Pow10(n) == IF n = 0 THEN 1 ELSE 10 * Pow10(n - 1)

\* code mod 10^digits for a code below 2^31 (which is below 10^10)
LowDigits(code, digits) == IF digits >= 10 THEN code ELSE code % Pow10(digits)

\* C7: dynamic truncation.  For a digest of 20, 32 or 64 bytes, with
\* offset = last byte & 0x0F and b0..b3 = digest[offset..offset+4], all four
\* bytes lie inside the digest, the code is
\* ((b0 & 0x7F) << 24) | (b1 << 16) | (b2 << 8) | b3, and it is below 2^31.
C7_DynamicTruncation ==
    (pure.fn # "none" /\ Len(pure.digest) \in {20, 32, 64})
        => LET d == pure.digest
               offset == d[Len(d)] % 16
           IN  /\ offset + 4 <= Len(d)
               /\ pure.code = (d[offset + 1] % 128) * 16777216 + d[offset + 2] * 65536
                              + d[offset + 3] * 256 + d[offset + 4]
               /\ pure.code >= 0
               /\ pure.code \div 128 < 16777216

\* a truncation that reads its bytes at the largest offset of a SHA-1 sized
\* digest and has the top bit of b0 masked away
C7_Witness ==
    /\ pure.fn # "none" /\ Len(pure.digest) = 20
    /\ pure.digest[20] % 16 = 15 /\ pure.digest[16] >= 128
    /\ pure.code > 0

\* C8: rendering.  For a non-zero code and digits >= 1 the returned string is
\* the decimal rendering of code mod 10^digits, left-padded with '0' to
\* exactly digits characters.
C8_Rendering ==
    (pure.fn # "none" /\ pure.code > 0 /\ pure.digits >= 1)
        => /\ pure.res.kind = "ok"
           /\ Len(pure.res.val) = pure.digits
           /\ IsDecimal(pure.res.val)
           /\ DecimalValue(pure.res.val) = LowDigits(pure.code, pure.digits)

\* a code with more decimal digits than requested: its low-order digits are kept
C8_Witness ==
    /\ pure.fn # "none" /\ pure.digits = 6 /\ pure.code >= 1000000
    /\ pure.res.kind = "ok" /\ DecimalValue(pure.res.val) = pure.code % 1000000

\* C10: zero-code rejection.  Whenever the truncated code is 0 the generation
\* functions return the generation error and no string; for every non-zero
\* code they return a string.
C10_ZeroCodeRejected ==
    pure.fn # "none"
        => /\ pure.code = 0 => (pure.res.kind = "err"
                                 /\ pure.res.val \in {"FailedToGenerateOTP", "FailedToGenerateHOTP"})
           /\ pure.code # 0 => (pure.res.kind = "ok" /\ IsDecimal(pure.res.val))

\* a SHA-1 sized digest whose four selected bytes are zero is refused
C10_Witness ==
    /\ pure.fn = "generate" /\ Len(pure.digest) = 20
    /\ pure.code = 0 /\ pure.res.kind = "err"

(***************************************************************************)
(* The Totp builder and the wall clock (SpecTotp).                         *)
(***************************************************************************)
\* SystemTime::now() when the model starts, in seconds since UNIX_EPOCH
\* (2026-11-01T00:00:00Z, a multiple of the step), and the seconds that one
\* tick of the clock adds
ClockStart == 1793491200
TickSeconds == 15

\* epoch offsets: none, half a step before the start of the model's clock (the
\* derived counter is then 0 and becomes 1 with the first tick) and an instant
\* still in the future
TotpOffsets == {0, ClockStart - TickSeconds, ClockStart + 3600}

\* the secret handed to the calls on the Totp builder
TotpKeys == {KeyA}

\* the code an honest prover holding the key computes for time step ctr
TotpProverCode(key, ctr) ==
    CodeOrEmpty(generate(key, AsU128(U64(ctr)), 6,
                         digest(key, AsU128(U64(ctr)), "Sha1").val).res)

\* tokens presented to Totp::verify: the prover's codes for the time steps
\* within two steps of the current one, the builder's own code, a wrong code
\* of the right length and one of the wrong length
TotpTokens(t, key, clock) ==
    LET c == get_counter(t, clock)
        near == IF c.kind = "ok" THEN {i \in (c.val - 2)..(c.val + 2) : i >= 0} ELSE {}
    IN  {TotpProverCode(key, i) : i \in near}
        \cup {CodeOrEmpty(totp_generate(t, key, clock).res)}
        \cup {<<"w", "r", "o", "n", "g">>, AsTuple([i \in 1..6 |-> "0"])}

InitTotp ==
    /\ build \in Builds
    /\ hotp = HotpNew(KeyA, U128(1))
    /\ totp = TotpNew
    /\ now = ClockStart
    /\ call = NoCall
    /\ pure = NoPure

with_epoch_time_offset(offset) ==
    /\ totp' = [totp EXCEPT !.epoch_time_offset = offset]
    /\ call' = [NoCall EXCEPT !.op = "with_epoch_time_offset"]
    /\ UNCHANGED <<build, hotp, now, pure>>

totp_with_window(window) ==
    /\ totp' = [totp EXCEPT !.window = window]
    /\ call' = [NoCall EXCEPT !.op = "with_window"]
    /\ UNCHANGED <<build, hotp, now, pure>>

totp_with_digest(d) ==
    /\ totp' = [totp EXCEPT !.digest = d]
    /\ call' = [NoCall EXCEPT !.op = "with_digest"]
    /\ UNCHANGED <<build, hotp, now, pure>>

TotpGenerate(key) ==
    /\ LET g == totp_generate(totp, key, now)
       IN  call' = [NoCall EXCEPT !.op = "generate", !.key = key, !.res = g.res,
                                  !.code = g.code, !.calls = g.calls, !.counter = g.counter]
    /\ UNCHANGED <<build, hotp, totp, now, pure>>

TotpVerify(token, key) ==
    /\ LET v == totp_verify(totp, token, key, now, build)
       IN  call' = [NoCall EXCEPT !.op = "verify", !.token = token, !.key = key,
                                  !.res = v.res, !.calls = v.calls, !.cands = v.cands,
                                  !.counter = v.counter, !.lower = v.lower]
    /\ UNCHANGED <<build, hotp, totp, now, pure>>

\* the wall clock advances
Tick ==
    /\ now < ClockStart + MaxTicks * TickSeconds
    /\ now' = now + TickSeconds
    /\ call' = [NoCall EXCEPT !.op = "tick"]
    /\ UNCHANGED <<build, hotp, totp, pure>>

NextTotp ==
    \/ \E offset \in TotpOffsets : with_epoch_time_offset(offset)
    \/ \E window \in 0..MaxWindow : totp_with_window(window)
    \/ \E d \in DigestOverrides : totp_with_digest(d)
    \/ \E key \in TotpKeys : TotpGenerate(key)
    \/ \E key \in TotpKeys : \E token \in TotpTokens(totp, key, now) : TotpVerify(token, key)
    \/ Tick

SpecTotp == InitTotp /\ [][NextTotp]_vars

(***************************************************************************)
(* Properties of the Totp builder, checked under SpecTotp.                 *)
(***************************************************************************)
\* what generation returns for time step ctr on a builder configured alike
TotpCodeAt(key, ctr) ==
    IF totp.digest = <<>> THEN TotpProverCode(key, ctr)
    ELSE CodeOrEmpty(generate(key, AsU128(U64(ctr)), 6, totp.digest).res)

\* C3: TOTP symmetric window.  With window w at derived counter c (c >= w),
\* Totp::verify compares the token with the code of every counter of
\* c - w ..= c + w, each candidate generated for its own counter, and returns
\* true exactly when the token equals one of them: a code of one step in the
\* past or future passes with window >= 1, a code two steps away that differs
\* from the three candidates fails with window = 1.
C3_SymmetricWindow ==
    (call.op = "verify" /\ call.res.kind = "ok" /\ Len(call.token) = 6
        /\ call.counter >= totp.window)
        => /\ \A k \in 1..Len(call.cands) :
                 call.cands[k].otp = TotpCodeAt(call.key, call.counter - totp.window + k - 1)
           /\ call.res.val = (\E i \in (call.counter - totp.window)..(call.counter + totp.window) :
                                 /\ TotpCodeAt(call.key, i) # <<>>
                                 /\ call.token = TotpCodeAt(call.key, i))

\* C4: TOTP lower-bound clamp.  When the derived counter is smaller than the
\* window, Totp::verify searches from counter 0 and returns a boolean.
C4_LowerBoundClamp ==
    (call.op = "verify" /\ call.counter >= 0 /\ call.counter < totp.window)
        => (call.res.kind = "ok" /\ call.lower = U128(0))

\* HOTP generation for a key at counter ctr with digits 6, with the digest
\* override of the Totp builder when it has one
HotpGenerationAt(key, ctr) ==
    generate_root(key, U128(ctr), Some(6),
                  IF totp.digest = <<>> THEN None ELSE Some(totp.digest))

\* the builder with its time overridden by the instant one tick before the
\* wall clock
TotpTimeOverridden == [totp EXCEPT !.time = now - TickSeconds]

\* C11: TOTP generation is HOTP generation at the derived counter.  Whenever
\* the epoch offset is not later than the time used, Totp::generate(key)
\* returns what HOTP generation returns for the same key, digits 6 and counter
\* floor((time - epoch_time_offset) / step): the same code on success, a
\* generation error where HOTP generation gives one.  The time is the wall
\* clock when the builder's time is unset and the builder's time otherwise.
C11_TotpIsHotpAtDerivedCounter ==
    (call.op = "generate" /\ totp.epoch_time_offset <= now)
        => LET c == (now - totp.epoch_time_offset) \div totp.step
               h == HotpGenerationAt(call.key, c)
               co == ((now - TickSeconds) - totp.epoch_time_offset) \div totp.step
               ho == HotpGenerationAt(call.key, co)
               go == totp_generate(TotpTimeOverridden, call.key, now)
           IN  /\ call.counter = c
               /\ call.res.kind = h.res.kind
               /\ call.code = h.code
               /\ call.res.kind = "ok" => call.res.val = h.res.val
               /\ totp.epoch_time_offset <= now - TickSeconds
                     => /\ go.counter = co
                        /\ go.res.kind = ho.res.kind
                        /\ go.res.kind = "ok" => go.res.val = ho.res.val

\* a code generated for a non-zero counter derived with a non-zero epoch
\* offset, the clock standing in the second step after the offset
C11_Witness ==
    /\ call.op = "generate" /\ call.res.kind = "ok"
    /\ totp.epoch_time_offset = ClockStart - TickSeconds
    /\ totp.digest = <<>>
    /\ call.counter = 1

\* what Totp::generate returns for the key of the last call on the builder as
\* it is configured now, at the present time
TotpOwnCode == totp_generate(totp, call.key, now).res

\* C12: TOTP round-trip.  Whatever the key, epoch offset and window, a code
\* that Totp::generate(key) returns is accepted by Totp::verify(code, key) on
\* the same builder while the time stays within the same step.
C12_TotpRoundTrip ==
    (call.op = "verify" /\ TotpOwnCode.kind = "ok" /\ call.token = TotpOwnCode.val)
        => (call.res.kind = "ok" /\ call.res.val = TRUE)

(***************************************************************************)
(* digest applied to sample keys, counters and algorithms (SpecDigest).    *)
(***************************************************************************)
\* the high and the low 64 bits of the sample counters
CounterHighParts == {U64(0), U64(1), AsTuple([i \in 1..U64Bytes |-> 255])}
CounterLowParts ==
    {U64(0), U64(1), U64(9), U64(5000), U64(65794), <<1, 2, 3, 4, 5, 6, 7, 8>>,
     <<128, 0, 0, 0, 0, 0, 0, 0>>, AsTuple([i \in 1..U64Bytes |-> 255])}

\* u128 counters, below and above 2^64
DigestCounters == {high \o low : high \in CounterHighParts, low \in CounterLowParts}

InitDigest ==
    /\ build = FALSE
    /\ hotp = HotpNew(KeyA, U128(1))
    /\ totp = TotpNew
    /\ now = 0
    /\ call = NoCall
    /\ \E key \in Keys, counter \in DigestCounters, algorithm \in Algorithms :
          pure = [NoPure EXCEPT !.key = key, !.counter = counter, !.algorithm = algorithm]

\* lib.rs digest(secret, counter, algorithm) on the sample: buf is the message
\* handed to Mac::update
ApplyDigest ==
    /\ pure.fn = "none"
    /\ pure' = [pure EXCEPT !.fn = "digest",
                            !.buf = CounterBuf(pure.counter),
                            !.res = digest(pure.key, pure.counter, pure.algorithm)]
    /\ UNCHANGED <<build, hotp, totp, now, call>>

NextDigest == ApplyDigest

SpecDigest == InitDigest /\ [][NextDigest]_vars

\* 2^64 as u128
TwoPow64 == AsTuple([i \in 1..U128Bytes |-> IF i = U128Bytes - U64Bytes THEN 1 ELSE 0])

\* C13: counter serialization.  digest feeds the keyed hash an 8-byte buffer
\* holding the low 64 bits of the counter, most significant byte first
\* (buf[0] is bits 56..63, buf[7] bits 0..7); a counter above 2^64 - 1 is no
\* error, and counters c and c + 2^64 give the same buffer.
C13_CounterSerialization ==
    pure.fn = "digest"
        => /\ Len(pure.buf) = 8
           /\ \A i \in 1..8 : pure.buf[i] = pure.counter[U128Bytes - U64Bytes + i]
           /\ (\A i \in 1..(U128Bytes - 3) : pure.counter[i] = 0)
                 => LET n == BytesToNat(pure.counter)
                    IN  /\ pure.buf[8] = n % 256
                        /\ pure.buf[7] = (n \div 256) % 256
                        /\ pure.buf[6] = (n \div 65536) % 256
                        /\ \A i \in 1..5 : pure.buf[i] = 0
           /\ pure.res.kind = "ok"
           /\ pure.res.val = HmacOutput(pure.algorithm, pure.key, pure.buf)
           /\ \A c \in DigestCounters :
                 (\A i \in 1..U64Bytes : c[U64Bytes + i] = pure.counter[U64Bytes + i])
                    => digest(pure.key, c, pure.algorithm).val = pure.res.val
           /\ LET wrapped == AddBytes(pure.counter, TwoPow64).val
              IN  digest(pure.key, wrapped, pure.algorithm).val = pure.res.val

\* a counter above 2^64 - 1 whose low 64 bits have distinct bytes
C13_Witness ==
    /\ pure.fn = "digest" /\ pure.res.kind = "ok"
    /\ pure.counter[U64Bytes] = 1
    /\ pure.buf = <<1, 2, 3, 4, 5, 6, 7, 8>>

(***************************************************************************)
(* Further properties of the Hotp builder, checked under Spec.             *)
(***************************************************************************)
\* C14: digest override.  When a digest override is set on the builder,
\* Hotp::generate does not invoke the Digest Provider; its result is the
\* truncation of the override rendered for the builder's digits, the same for
\* every key and counter.
C14_DigestOverrideVerbatim ==
    (call.op = "generate" /\ hotp.digest.some)
        => LET d == hotp.digest.val
               offset == d[Len(d)] % 16
           IN  /\ call.calls = 0
               /\ Len(d) = 20
                     => call.code = (d[offset + 1] % 128) * 16777216 + d[offset + 2] * 65536
                                    + d[offset + 3] * 256 + d[offset + 4]
               /\ Len(d) = 0 => call.code = 0
               /\ call.code = 0 => call.res.kind = "err"
               /\ call.code # 0
                     => /\ call.res.kind = "ok"
                        /\ Len(call.res.val) = HotpDefinedDigits
                        /\ DecimalValue(call.res.val) = LowDigits(call.code, HotpDefinedDigits)
               /\ \A k \in Keys, c \in HotpCounters :
                     LET g == generate_root(k, c, hotp.digits, hotp.digest)
                     IN  /\ g.code = call.code
                         /\ g.res.kind = call.res.kind
                         /\ g.res.val = call.res.val

\* a code generated from a non-zero override, different from the code that
\* the key and counter of the builder give without it
C14_Witness ==
    /\ call.op = "generate" /\ hotp.digest.some /\ call.res.kind = "ok"
    /\ call.code > 0 /\ call.calls = 0
    /\ call.res.val # ProverCode(hotp.key, hotp.counter, hotp.digits)

\* C16: purity.  A generate or verify call on a Hotp builder leaves its key,
\* counter, digits, window and digest override as they were, and a generate
\* after a verify that followed a generate returns what the first returned.
C16_HotpCallsPure ==
    [][/\ call'.op \in {"generate", "verify"} => hotp' = hotp
       /\ (call.op = "generate" /\ call'.op = "verify")
             => LET again == generate_root(hotp'.key, hotp'.counter, hotp'.digits, hotp'.digest)
                IN  /\ again.res.kind = call.res.kind
                    /\ again.res.val = call.res.val
                    /\ again.code = call.code]_vars

\* a verify that accepted its token on a configured builder
C16_Witness ==
    /\ call.op = "verify" /\ call.res.kind = "ok" /\ call.res.val = TRUE
    /\ hotp.window.some /\ hotp.digits.some

(***************************************************************************)
(* Secret generation (src/src/lib.rs), checked under SpecSecret.           *)
(***************************************************************************)
CHAR_SET ==
    <<"1", "2", "3", "4", "5", "6", "7", "8", "9", "0", "A", "B", "C", "D", "E", "F", "G", "H",
      "I", "J", "K", "L", "M", "N", "O", "P", "Q", "R", "S", "T", "U", "V", "W", "X", "Y", "Z",
      "a", "b", "c", "d", "e", "f", "g", "h", "i", "j", "k", "l", "m", "n", "o", "p", "q", "r",
      "s", "t", "u", "v", "w", "x", "y", "z">>

SYMBOL_SET ==
    <<"!", "@", "#", "$", "%", "^", "&", "*", "(", ")", "<", ">", "?", "/", "[", "]", "{", "}",
      ",", ".", ":", ";">>

\* the values that length calls of rand::random::<u8>() return: any bytes; the
\* model draws them as start, start + stride, ... modulo 256
RandomBytes(length, seed) ==
    AsTuple([i \in 1..length |-> (seed[1] + seed[2] * (i - 1)) % 256])

\* the character that one iteration of the loop of generate_secret_ascii
\* pushes for the byte value; a table index out of bounds aborts
secret_char(value, symbols) ==
    LET char_index == (value * (Len(CHAR_SET) - 1)) \div 255
        symbol_index == (value * (Len(SYMBOL_SET) - 1)) \div 255
    IN  IF symbols /\ value % 2 = 1
        THEN (IF symbol_index < Len(SYMBOL_SET) THEN SYMBOL_SET[symbol_index + 1] ELSE "panic")
        ELSE (IF char_index < Len(CHAR_SET) THEN CHAR_SET[char_index + 1] ELSE "panic")

\* generate_secret_ascii(length, symbols) when rand::random returns byte_array
generate_secret_ascii(byte_array, symbols) ==
    AsTuple([i \in 1..Len(byte_array) |-> secret_char(byte_array[i], symbols)])

\* generate_secret_default(length, symbols): the length and the symbols flag
\* handed to generate_secret_ascii
generate_secret_default(length, symbols) ==
    [defined_symbols |-> IF symbols.some THEN symbols.val ELSE TRUE,
     defined_length |-> IF length.some THEN length.val ELSE 32]

\* the public functions: what each hands to generate_secret_default
SecretApis ==
    {"generate_secret", "generate_sized_secret", "generate_secret_without_symbols",
     "generate_sized_secret_without_symbols"}

SizedApis == {"generate_sized_secret", "generate_sized_secret_without_symbols"}

secret_api(api, length) ==
    CASE api = "generate_secret" -> generate_secret_default(None, None)
      [] api = "generate_sized_secret" -> generate_secret_default(Some(length), None)
      [] api = "generate_secret_without_symbols" -> generate_secret_default(None, Some(FALSE))
      [] api = "generate_sized_secret_without_symbols"
            -> generate_secret_default(Some(length), Some(TRUE))

SecretSeeds == {<<start, stride>> : start \in 0..255, stride \in {0, 1}}

InitSecret ==
    /\ build = FALSE
    /\ hotp = HotpNew(KeyA, U128(1))
    /\ totp = TotpNew
    /\ now = 0
    /\ call = NoCall
    /\ \E api \in SecretApis, seed \in SecretSeeds :
          \E length \in IF api \in SizedApis THEN {Some(n) : n \in 0..MaxSecretLen} ELSE {None} :
             pure = [NoPure EXCEPT !.api = api, !.length = length, !.seed = seed]

\* a call of one of the public secret generators
ApplySecret ==
    /\ pure.fn = "none"
    /\ LET d == secret_api(pure.api, IF pure.length.some THEN pure.length.val ELSE 0)
           byte_array == RandomBytes(d.defined_length, pure.seed)
       IN  pure' = [pure EXCEPT !.fn = "secret", !.bytes = byte_array,
                                !.secret = generate_secret_ascii(byte_array, d.defined_symbols)]
    /\ UNCHANGED <<build, hotp, totp, now, call>>

NextSecret == ApplySecret

SpecSecret == InitSecret /\ [][NextSecret]_vars

\* the characters of a table
Chars(table) == {table[i] : i \in 1..Len(table)}

\* C17: secrets without symbols.  Whatever the random bytes, the strings that
\* generate_secret_without_symbols and generate_sized_secret_without_symbols
\* return contain only characters of CHAR_SET and none of SYMBOL_SET.
C17_NoSymbols ==
    (pure.fn = "secret"
        /\ pure.api \in {"generate_secret_without_symbols",
                         "generate_sized_secret_without_symbols"})
        => \A i \in 1..Len(pure.secret) :
              /\ pure.secret[i] \in Chars(CHAR_SET)
              /\ pure.secret[i] \notin Chars(SYMBOL_SET)

\* the values of rand::random::<u8>()
ByteValues == 0..255

\* the symbols flag that the call of the state handed to generate_secret_ascii
SecretSymbols ==
    secret_api(pure.api, IF pure.length.some THEN pure.length.val ELSE 0).defined_symbols

\* the characters of the tables that a mode of generate_secret_ascii reads
SetsInUse(symbols) ==
    IF symbols THEN Chars(CHAR_SET) \cup Chars(SYMBOL_SET) ELSE Chars(CHAR_SET)

\* the characters that a mode of generate_secret_ascii pushes for the byte values
Producible(symbols) == {secret_char(value, symbols) : value \in ByteValues}

\* C21: secret alphabet coverage.  In the mode of a call of a secret generator,
\* every character of the sets in use (the 62 of CHAR_SET, with symbols also
\* the 22 of SYMBOL_SET) is pushed for some byte value 0..255, and every table
\* index computed, for the bytes drawn and for any byte value, is within bounds.
C21_AlphabetCoverage ==
    pure.fn = "secret"
        => /\ Cardinality(Chars(CHAR_SET)) = 62
           /\ Cardinality(Chars(SYMBOL_SET)) = 22
           /\ SetsInUse(SecretSymbols) \subseteq Producible(SecretSymbols)
           /\ "panic" \notin Producible(SecretSymbols)
           /\ \A i \in 1..Len(pure.secret) : pure.secret[i] # "panic"

(***************************************************************************)
(* WebAuthn attestation options (src/src/webauthn), checked under          *)
(* SpecWebauthn.                                                           *)
(***************************************************************************)
\* Option<T> over the values of an enum
OptionOf(values) == {None} \cup {Some(v) : v \in values}

ResidentKeyRequirement == {"Discouraged", "Preferred", "Required"}
AuthenticatorAttachment == {"CrossPlatform", "Platform"}
UserVerificationRequirement == {"Discouraged", "Preferred", "Required"}

\* the values of the struct AuthenticatorSelectionCriteria
AuthenticatorSelectionCriteria ==
    [authenticator_attachment : OptionOf(AuthenticatorAttachment),
     require_resident_key : OptionOf(BOOLEAN),
     resident_key : OptionOf(ResidentKeyRequirement),
     user_verification : OptionOf(UserVerificationRequirement)]

\* AttestationOptions::new: the fields that generate_attestation_options
\* hands on as they are, with the selection it is given
AttestationOptions(selection) ==
    [timeout |-> Some(60000), attestation_type |-> Some("None"), extensions |-> None,
     authenticator_selection |-> selection]

\* generate_attestation_options(options): the selection and the fields handed
\* on unchanged; the fields built from the relying party, the user, the
\* challenge, the algorithms and the credentials do not read the selection
generate_attestation_options(options) ==
    LET given == options.authenticator_selection
        authenticator_selection ==
            IF given.some
            THEN (IF given.val.resident_key = Some("Required")
                  THEN Some([given.val EXCEPT !.require_resident_key = Some(TRUE)])
                  ELSE given)
            ELSE None
    IN  [extensions |-> options.extensions,
         attestation |-> options.attestation_type,
         authenticator_selection |-> authenticator_selection,
         timeout |-> options.timeout]

InitWebauthn ==
    /\ build = FALSE
    /\ hotp = HotpNew(KeyA, U128(1))
    /\ totp = TotpNew
    /\ now = 0
    /\ call = NoCall
    /\ \E selection \in OptionOf(AuthenticatorSelectionCriteria) :
          pure = [NoPure EXCEPT !.options = Some(AttestationOptions(selection))]

ApplyAttestationOptions ==
    /\ pure.fn = "none"
    /\ pure' = [pure EXCEPT !.fn = "generate_attestation_options",
                            !.created = Some(generate_attestation_options(pure.options.val))]
    /\ UNCHANGED <<build, hotp, totp, now, call>>

NextWebauthn == ApplyAttestationOptions

SpecWebauthn == InitWebauthn /\ [][NextWebauthn]_vars

\* C18: WebAuthn resident key.  In the options that
\* generate_attestation_options returns, require_resident_key of the
\* authenticator selection is true if and only if resident_key is Required,
\* whatever selection was given, and the other fields of the selection are
\* those given.
C18_ResidentKey ==
    (pure.fn = "generate_attestation_options"
        /\ pure.options.val.authenticator_selection.some)
        => LET given == pure.options.val.authenticator_selection.val
               made == pure.created.val.authenticator_selection
           IN  /\ made.some
               /\ (made.val.require_resident_key = Some(TRUE))
                     <=> (made.val.resident_key = Some("Required"))
               /\ made.val.resident_key = given.resident_key
               /\ made.val.authenticator_attachment = given.authenticator_attachment
               /\ made.val.user_verification = given.user_verification

\* C19: HOTP verification soundness.  Whatever the key, counter, window,
\* digits (0 included) and digest override (an empty one included),
\* Hotp::verify returns true only if the token equals a code that generation
\* returns for some counter of counter ..= counter + window; a candidate whose
\* generation failed does not make it accept.
C19_VerifySound ==
    (call.op = "verify" /\ call.res.kind = "ok" /\ call.res.val = TRUE)
        => /\ \E i \in HotpWindowCounters :
                 /\ HotpCodeAt(i).kind = "ok"
                 /\ HotpCodeAt(i).val = call.token
           /\ call.cands[Len(call.cands)].res.kind = "ok"

(***************************************************************************)
(* Further properties of the Totp builder, checked under SpecTotp.         *)
(***************************************************************************)
\* C20: TOTP never aborts on its configuration.  Whatever the epoch offset,
\* one later than the time used included, Totp::generate and Totp::verify get
\* through the derivation of the counter and, the window being 0, return a
\* Result (a code, a boolean or a GenerationError).
C20_CounterDerivationTotal ==
    call.op \in {"generate", "verify"}
        => /\ call.counter >= 0
           /\ totp.window = 0 => call.res.kind \in {"ok", "err"}

(***************************************************************************)
(* The Hotp builder on the secret of RFC 4226 (SpecRfc).                   *)
(***************************************************************************)
\* the counters of the table of RFC 4226, appendix D
RfcCounters == {U128(c) : c \in 0..9}

\* the digits of RFC 4226 (6 to 8) and up to the 10 digits of a 31-bit code
RfcDigits == 6..10

InitRfc ==
    /\ build = FALSE
    /\ \E counter \in RfcCounters : hotp = HotpNew(RfcKey, counter)
    /\ totp = TotpNew
    /\ now = 0
    /\ call = NoCall
    /\ pure = NoPure

NextRfc ==
    \/ \E n \in RfcDigits : of_length(n)
    \/ HotpGenerate

SpecRfc == InitRfc /\ [][NextRfc]_vars

\* C15: RFC 4226 conformance.  With the secret "12345678901234567890", SHA-1
\* and 6 digits, Hotp::generate returns 755224 for counter 0, 287082 for
\* counter 1 and 520489 for counter 9.
C15_Rfc4226Vectors ==
    (call.op = "generate" /\ hotp.key = RfcKey /\ ~hotp.digest.some /\ HotpDefinedDigits = 6)
        => /\ call.res.kind = "ok"
           /\ hotp.counter = U128(0) => call.res.val = <<"7", "5", "5", "2", "2", "4">>
           /\ hotp.counter = U128(1) => call.res.val = <<"2", "8", "7", "0", "8", "2">>
           /\ hotp.counter = U128(9) => call.res.val = <<"5", "2", "0", "4", "8", "9">>

\* the code of counter 9 generated with the default digits
C15_Witness ==
    /\ call.op = "generate" /\ hotp.key = RfcKey /\ hotp.counter = U128(9)
    /\ ~hotp.digits.some
    /\ call.res.kind = "ok" /\ call.res.val = <<"5", "2", "0", "4", "8", "9">>

====
